---- MODULE Spec2Model ----
(***************************************************************************)
(* StatisticsGen.__init__ (tfx/components/statistics_gen/component.py).     *)
(*                                                                         *)
(* Every constructor call is a process that walks the statements of        *)
(* __init__ (lines 75-87) one at a time.  Objects live in heaps and are     *)
(* referred to by identity (an index), strings are sequences of            *)
(* one-character strings, and an Optional value is a record with an        *)
(* isNone flag.                                                            *)
(***************************************************************************)
EXTENDS Integers, Sequences, FiniteSets, TLC

\* ------------------------------------------------------------------ bounds
NumComps == 2       \* constructor calls that may run side by side
MaxSplits == 2      \* longest exclude_splits list a caller passes
MaxNameLen == 1     \* longest split name a caller passes

Comps == 1..NumComps

\* --------------------------------------------------------- Python values
\* The None reference, for arguments that are object references.
None == 0

\* Optional[...] values that are not references.
NoneVal == [isNone |-> TRUE, val |-> <<>>]
Some(v) == [isNone |-> FALSE, val |-> v]

\* Characters a split name is made of: a letter, and the two characters
\* JSON has to escape.
Quote == "\""
Backslash == "\\"
Alphabet == {"e", Quote, Backslash}

RECURSIVE StringsUpTo(_)
StringsUpTo(n) ==
  IF n = 0 THEN {<<>>}
  ELSE LET shorter == StringsUpTo(n - 1)
       IN  shorter \cup {Append(s, ch) : s \in shorter, ch \in Alphabet}

SplitNames == StringsUpTo(MaxNameLen)

RECURSIVE ListsUpTo(_)
ListsUpTo(n) ==
  IF n = 0 THEN {<<>>}
  ELSE LET shorter == ListsUpTo(n - 1)
       IN  shorter \cup {Append(l, s) : l \in shorter, s \in SplitNames}

SplitLists == ListsUpTo(MaxSplits)

\* ------------------------------------------------------ channels (heap)
\* Channels the caller owns before any constructor runs: one of each
\* artifact type the component can be handed.
CallerChannels ==
  << [type |-> "Examples"], [type |-> "Schema"], [type |-> "ExampleStatistics"] >>

NumCallerChannels == Len(CallerChannels)

\* ----------------------------------------------- tfdv.StatsOptions objects
\* The StatsOptions objects a caller may pass.  Objects 1 and 2 differ only
\* in their slicer functions.
StatsOptionsObjects ==
  << [num_top_values |-> 1, slice_functions |-> FALSE],
     [num_top_values |-> 1, slice_functions |-> TRUE],
     [num_top_values |-> 2, slice_functions |-> FALSE] >>

NumStatsOptions == Len(StatsOptionsObjects)

Digits == <<"1", "2">>

\* StatsOptions.to_json(): serializes the object's fields; slicer functions
\* and custom generators are dropped.
to_json(o) ==
  << "{", "n", ":", Digits[StatsOptionsObjects[o].num_top_values], "}" >>

\* Truth value of a stats_options argument: None is false, a StatsOptions
\* object (which defines neither __bool__ nor __len__) is true.
Truthy(stats_options) == stats_options # None

\* ------------------------------------------------------ json_utils (JSON)
\* A JSON string literal: the characters between double quotes, with the
\* double quote and the backslash escaped by a backslash.
RECURSIVE EscapeString(_)
EscapeString(s) ==
  IF s = <<>> THEN <<>>
  ELSE LET ch == Head(s)
       IN  (IF ch = Quote \/ ch = Backslash THEN <<Backslash, ch>> ELSE <<ch>>)
             \o EscapeString(Tail(s))

EncodeString(s) == <<Quote>> \o EscapeString(s) \o <<Quote>>

\* The elements of a JSON array, separated by a comma and a space.
RECURSIVE EncodeItems(_)
EncodeItems(l) ==
  IF l = <<>> THEN <<>>
  ELSE IF Len(l) = 1 THEN EncodeString(l[1])
  ELSE EncodeString(Head(l)) \o <<",", " ">> \o EncodeItems(Tail(l))

JsonNull == <<"n", "u", "l", "l">>

\* json_utils.dumps(obj) for obj an Optional list of strings.
dumps(obj) ==
  IF obj.isNone THEN JsonNull
  ELSE <<"[">> \o EncodeItems(obj.val) \o <<"]">>

\* What decoding yields: a list, null, or a decoding error.
Decoded(kind, val) == [kind |-> kind, val |-> val]
DecodeError == Decoded("error", <<>>)

\* The array parser: position i in text, parser state st, string under
\* construction cur, strings finished so far acc.
RECURSIVE ParseArray(_, _, _, _, _)
ParseArray(text, i, st, cur, acc) ==
  IF i > Len(text)
  THEN IF st = "end" THEN Decoded("list", acc) ELSE DecodeError
  ELSE LET ch == text[i] IN
    CASE st = "open" ->
           IF ch = "[" THEN ParseArray(text, i + 1, "first", cur, acc)
           ELSE DecodeError
      [] st = "first" ->
           IF ch = "]" THEN ParseArray(text, i + 1, "end", cur, acc)
           ELSE IF ch = Quote THEN ParseArray(text, i + 1, "str", <<>>, acc)
           ELSE IF ch = " " THEN ParseArray(text, i + 1, st, cur, acc)
           ELSE DecodeError
      [] st = "str" ->
           IF ch = Quote
           THEN ParseArray(text, i + 1, "after", <<>>, Append(acc, cur))
           ELSE IF ch = Backslash THEN ParseArray(text, i + 1, "esc", cur, acc)
           ELSE ParseArray(text, i + 1, st, Append(cur, ch), acc)
      [] st = "esc" ->
           IF ch = Quote \/ ch = Backslash
           THEN ParseArray(text, i + 1, "str", Append(cur, ch), acc)
           ELSE DecodeError
      [] st = "after" ->
           IF ch = "," THEN ParseArray(text, i + 1, "next", cur, acc)
           ELSE IF ch = "]" THEN ParseArray(text, i + 1, "end", cur, acc)
           ELSE IF ch = " " THEN ParseArray(text, i + 1, st, cur, acc)
           ELSE DecodeError
      [] st = "next" ->
           IF ch = Quote THEN ParseArray(text, i + 1, "str", <<>>, acc)
           ELSE IF ch = " " THEN ParseArray(text, i + 1, st, cur, acc)
           ELSE DecodeError
      [] OTHER -> DecodeError

\* json_utils.loads(text) for the texts dumps produces.
loads(text) ==
  IF text = JsonNull THEN Decoded("null", <<>>)
  ELSE ParseArray(text, 1, "open", <<>>, <<>>)

\* ------------------------------------------------- the constructor's steps
DefaultingMessage == "Excluding no splits because exclude_splits is not set."

\* Lines 75-77 without the defaulting: None is passed on, nothing is logged.
DefaultExcludeSplits_NoDefault(exclude_splits) ==
  [exclude_splits |-> exclude_splits, logged |-> <<>>]

\* Lines 75-77 with the test "if not exclude_splits", which an empty list
\* passes too.
DefaultExcludeSplits_Falsy(exclude_splits) ==
  IF exclude_splits.isNone \/ exclude_splits.val = <<>>
  THEN [exclude_splits |-> Some(<<>>), logged |-> <<DefaultingMessage>>]
  ELSE [exclude_splits |-> exclude_splits, logged |-> <<>>]

\* Lines 75-77: the value exclude_splits is bound to afterwards, and the
\* messages handed to logging.info.
DefaultExcludeSplits(exclude_splits) ==
  IF exclude_splits.isNone
  THEN [exclude_splits |-> Some(<<>>), logged |-> <<DefaultingMessage>>]
  ELSE [exclude_splits |-> exclude_splits, logged |-> <<>>]

\* Line 78 with the artifact type of the input channel.
StatisticsChannel_Examples == [type |-> "Examples"]

\* Line 78: the channel object types.Channel(type=ExampleStatistics) makes.
StatisticsChannel == [type |-> "ExampleStatistics"]

\* Line 78 with one channel object made once and shared by all calls.
AllocChannel_Shared(heap) == NumCallerChannels + 1

\* Line 78: the identity of a newly made object, one no object of the heap
\* has.
AllocChannel(heap) == Len(heap) + 1

\* Line 80 with the result never passed on.
EvalStatsOptionsJson_Dropped(stats_options) ==
  [result |-> NoneVal, called |-> <<>>, raised |-> FALSE]

\* Line 80 serializing a default options object when none is given.
EvalStatsOptionsJson_Default(stats_options) ==
  IF Truthy(stats_options)
  THEN [result |-> Some(to_json(stats_options)),
        called |-> <<stats_options>>, raised |-> FALSE]
  ELSE [result |-> Some(to_json(1)), called |-> <<1>>, raised |-> FALSE]

\* Line 80 without the conditional: stats_options.to_json().
EvalStatsOptionsJson_Unguarded(stats_options) ==
  IF stats_options = None
  THEN [result |-> NoneVal, called |-> <<>>, raised |-> TRUE]
  ELSE [result |-> Some(to_json(stats_options)),
        called |-> <<stats_options>>, raised |-> FALSE]

\* Line 80: stats_options.to_json() if stats_options else None.  called
\* lists the objects to_json was invoked on; raised says the expression
\* failed (an attribute lookup on None).
EvalStatsOptionsJson(stats_options) ==
  IF Truthy(stats_options)
  THEN [result |-> Some(to_json(stats_options)),
        called |-> <<stats_options>>, raised |-> FALSE]
  ELSE [result |-> NoneVal, called |-> <<>>, raised |-> FALSE]

\* A list without its repeated elements.
RECURSIVE Dedup(_, _)
Dedup(l, seen) ==
  IF l = <<>> THEN <<>>
  ELSE IF Head(l) \in seen THEN Dedup(Tail(l), seen)
  ELSE <<Head(l)>> \o Dedup(Tail(l), seen \cup {Head(l)})

\* Lines 81-86 serializing the set of split names.
BuildSpec_Dedup(examples, schema, stats_options_json, exclude_splits, statistics) ==
  [examples |-> examples,
   schema |-> schema,
   stats_options_json |-> stats_options_json,
   exclude_splits |-> dumps(IF exclude_splits.isNone THEN exclude_splits
                            ELSE Some(Dedup(exclude_splits.val, {}))),
   statistics |-> statistics]

\* Lines 81-86 with statistics=examples.
BuildSpec_StatisticsIsExamples(examples, schema, stats_options_json, exclude_splits, statistics) ==
  [examples |-> examples,
   schema |-> schema,
   stats_options_json |-> stats_options_json,
   exclude_splits |-> dumps(exclude_splits),
   statistics |-> examples]

\* Lines 81-86 with the examples channel standing in for an omitted schema.
BuildSpec_DefaultSchema(examples, schema, stats_options_json, exclude_splits, statistics) ==
  [examples |-> examples,
   schema |-> IF schema = None THEN examples ELSE schema,
   stats_options_json |-> stats_options_json,
   exclude_splits |-> dumps(exclude_splits),
   statistics |-> statistics]

\* Lines 81-86: the StatisticsGenSpec record.
BuildSpec(examples, schema, stats_options_json, exclude_splits, statistics) ==
  [examples |-> examples,
   schema |-> schema,
   stats_options_json |-> stats_options_json,
   exclude_splits |-> dumps(exclude_splits),
   statistics |-> statistics]

\* StatisticsGenSpec: which fields are output channels.
SpecOutputKeys == {"statistics"}

\* The base component initializer rejects input channels of the wrong kind.
TypeCheck(spec, heap) ==
  /\ heap[spec.examples].type = "Examples"
  /\ spec.schema # None => heap[spec.schema].type = "Schema"

\* The base component initializer: the component keeps the spec record and
\* exposes the spec's output channels as outputs.
BaseInit(spec) ==
  [spec |-> spec, outputs |-> [k \in SpecOutputKeys |-> spec[k]]]

\* ------------------------------------------------------------------ state
VARIABLES
  args,                \* args[c]: the arguments of constructor call c
  pc,                  \* pc[c]: the statement call c executes next
  exclude_splits,      \* the local variable exclude_splits of call c
  statistics,          \* the local variable statistics of call c
  stats_options_json,  \* the local variable stats_options_json of call c
  spec,                \* the local variable spec of call c
  component,           \* what the base initializer stored in self
  init_calls,          \* how often call c invoked the base initializer
  channels,            \* the heap of Channel objects
  log,                 \* logging.info records, oldest first
  to_json_calls        \* to_json invocations, oldest first

vars == << args, pc, exclude_splits, statistics, stats_options_json, spec,
           component, init_calls, channels, log, to_json_calls >>

NoArgs == [examples |-> 1, schema |-> None, stats_options |-> None,
           exclude_splits |-> NoneVal]

NoSpec == BuildSpec(None, None, NoneVal, NoneVal, None)

NoComponent == [spec |-> NoSpec, outputs |-> [k \in {} |-> None]]

\* Arguments of a single call: any channel as examples, no schema or any
\* channel as schema, no options or any options object, no list or any list.
ArgSets ==
  [examples : 1..NumCallerChannels,
   schema : {None} \cup (2..NumCallerChannels),
   stats_options : {None} \cup (1..NumStatsOptions),
   exclude_splits : {NoneVal} \cup {Some(l) : l \in SplitLists}]

\* Arguments of calls that run side by side: all share the examples channel.
ConcArgSets ==
  [examples : {1},
   schema : {None, 2},
   stats_options : {None, 1},
   exclude_splits : {NoneVal, Some(<< <<"e">> >>)}]

InitLocals ==
  /\ exclude_splits = [c \in Comps |-> args[c].exclude_splits]
  /\ statistics = [c \in Comps |-> None]
  /\ stats_options_json = [c \in Comps |-> NoneVal]
  /\ spec = [c \in Comps |-> NoSpec]
  /\ component = [c \in Comps |-> NoComponent]
  /\ init_calls = [c \in Comps |-> 0]
  /\ channels = CallerChannels
  /\ log = <<>>
  /\ to_json_calls = <<>>

\* One constructor call, with any arguments.
Init ==
  /\ \E a \in ArgSets : args = [c \in Comps |-> IF c = 1 THEN a ELSE NoArgs]
  /\ pc = [c \in Comps |-> IF c = 1 THEN "L75" ELSE "off"]
  /\ InitLocals

\* NumComps constructor calls side by side.
InitConc ==
  /\ args \in [Comps -> ConcArgSets]
  /\ pc = [c \in Comps |-> "L75"]
  /\ InitLocals

\* ---------------------------------------------------------------- actions
\* Lines 75-77.
Defaulting(c) ==
  /\ pc[c] = "L75"
  /\ LET r == DefaultExcludeSplits(exclude_splits[c]) IN
       /\ exclude_splits' = [exclude_splits EXCEPT ![c] = r.exclude_splits]
       /\ log' = log \o [i \in 1..Len(r.logged) |->
                           [comp |-> c, msg |-> r.logged[i]]]
  /\ pc' = [pc EXCEPT ![c] = "L78"]
  /\ UNCHANGED << args, statistics, stats_options_json, spec, component,
                  init_calls, channels, to_json_calls >>

\* Line 78.
CreateChannel(c) ==
  /\ pc[c] = "L78"
  /\ LET id == AllocChannel(channels) IN
       /\ channels' = IF id > Len(channels)
                      THEN Append(channels, StatisticsChannel)
                      ELSE [channels EXCEPT ![id] = StatisticsChannel]
       /\ statistics' = [statistics EXCEPT ![c] = id]
  /\ pc' = [pc EXCEPT ![c] = "L80"]
  /\ UNCHANGED << args, exclude_splits, stats_options_json, spec, component,
                  init_calls, log, to_json_calls >>

\* Line 80.
SerializeOptions(c) ==
  /\ pc[c] = "L80"
  /\ LET r == EvalStatsOptionsJson(args[c].stats_options) IN
       /\ to_json_calls' = to_json_calls \o
            [i \in 1..Len(r.called) |-> [comp |-> c, self |-> r.called[i]]]
       /\ IF r.raised
          THEN /\ pc' = [pc EXCEPT ![c] = "raised_local"]
               /\ UNCHANGED stats_options_json
          ELSE /\ pc' = [pc EXCEPT ![c] = "L81"]
               /\ stats_options_json' =
                    [stats_options_json EXCEPT ![c] = r.result]
  /\ UNCHANGED << args, exclude_splits, statistics, spec, component,
                  init_calls, channels, log >>

\* Lines 81-86.
ConstructSpec(c) ==
  /\ pc[c] = "L81"
  /\ spec' = [spec EXCEPT ![c] =
                BuildSpec(args[c].examples, args[c].schema,
                          stats_options_json[c], exclude_splits[c],
                          statistics[c])]
  /\ pc' = [pc EXCEPT ![c] = "L87"]
  /\ UNCHANGED << args, exclude_splits, statistics, stats_options_json,
                  component, init_calls, channels, log, to_json_calls >>

\* Line 87.
SuperInit(c) ==
  /\ pc[c] = "L87"
  /\ init_calls' = [init_calls EXCEPT ![c] = @ + 1]
  /\ IF TypeCheck(spec[c], channels)
     THEN /\ component' = [component EXCEPT ![c] = BaseInit(spec[c])]
          /\ pc' = [pc EXCEPT ![c] = "done"]
     ELSE /\ pc' = [pc EXCEPT ![c] = "raised_base"]
          /\ UNCHANGED component
  /\ UNCHANGED << args, exclude_splits, statistics, stats_options_json, spec,
                  channels, log, to_json_calls >>

Next ==
  \E c \in Comps :
    \/ Defaulting(c)
    \/ CreateChannel(c)
    \/ SerializeOptions(c)
    \/ ConstructSpec(c)
    \/ SuperInit(c)

Spec == Init /\ [][Next]_vars

SpecConc == InitConc /\ [][Next]_vars

\* ------------------------------------------------------------- properties
\* Call c has built its spec record.
Built(c) == pc[c] \in {"L87", "done", "raised_base"}

\* Call c has executed line 78.
HasChannel(c) == pc[c] \in {"L80", "L81", "L87", "done", "raised_base", "raised_local"}

\* Call c has executed lines 75-77.
Defaulted(c) == pc[c] \notin {"off", "L75"}

\* The log records call c emitted.
LogsOf(c) == {i \in DOMAIN log : log[i].comp = c}

DefaultingLogsOf(c) == {i \in LogsOf(c) : log[i].msg = DefaultingMessage}

\* The receivers of the to_json invocations call c made, oldest first.
ToJsonCallsOf(c) == SelectSeq(to_json_calls, LAMBDA r : r.comp = c)

\* C1: when exclude_splits is omitted, the exclude_splits field of the spec
\* decodes to the empty list and the call emits exactly one log record, the
\* defaulting message.
C1_OmittedSplitsDefault ==
  \A c \in Comps :
    (pc[c] # "off" /\ args[c].exclude_splits.isNone) =>
      /\ Built(c) => loads(spec[c].exclude_splits) = Decoded("list", <<>>)
      /\ pc[c] = "done" =>
           loads(component[c].spec.exclude_splits) = Decoded("list", <<>>)
      /\ Defaulted(c) =>
           /\ Cardinality(LogsOf(c)) = 1
           /\ Cardinality(DefaultingLogsOf(c)) = 1

C1_Witness ==
  \E c \in Comps :
    /\ pc[c] = "done"
    /\ args[c].exclude_splits.isNone
    /\ loads(component[c].spec.exclude_splits) = Decoded("list", <<>>)
    /\ Cardinality(DefaultingLogsOf(c)) = 1

\* C2: when exclude_splits is a non-empty list of strings, the exclude_splits
\* field of the spec decodes to that list: same elements, same length, same
\* order.
C2_SplitsRoundTrip ==
  \A c \in Comps :
    (Built(c) /\ ~args[c].exclude_splits.isNone
              /\ args[c].exclude_splits.val # <<>>) =>
      /\ loads(spec[c].exclude_splits) =
           Decoded("list", args[c].exclude_splits.val)
      /\ pc[c] = "done" => component[c].spec.exclude_splits = spec[c].exclude_splits

C2_Witness ==
  \E c \in Comps :
    /\ pc[c] = "done"
    /\ ~args[c].exclude_splits.isNone
    /\ Len(args[c].exclude_splits.val) = 2
    /\ args[c].exclude_splits.val[1] = args[c].exclude_splits.val[2]
    /\ Quote \in {args[c].exclude_splits.val[1][i] :
                    i \in DOMAIN args[c].exclude_splits.val[1]}
    /\ loads(component[c].spec.exclude_splits) =
         Decoded("list", args[c].exclude_splits.val)

\* C3: when stats_options is supplied, stats_options_json is what to_json
\* returns for the supplied object, to_json was invoked once and on that
\* object, and stats_options_json is not None.
C3_OptionsSerializedByObject ==
  \A c \in Comps :
    (Built(c) /\ args[c].stats_options # None) =>
      /\ ~spec[c].stats_options_json.isNone
      /\ spec[c].stats_options_json.val = to_json(args[c].stats_options)
      /\ ToJsonCallsOf(c) = << [comp |-> c, self |-> args[c].stats_options] >>

C3_Witness ==
  \E c \in Comps :
    /\ pc[c] = "done"
    /\ args[c].stats_options = 2
    /\ component[c].spec.stats_options_json = Some(to_json(2))

\* C4: when stats_options is omitted, stats_options_json is None and to_json
\* is never invoked, whatever the other arguments are.
C4_OmittedOptionsNone ==
  \A c \in Comps :
    (pc[c] # "off" /\ args[c].stats_options = None) =>
      /\ ToJsonCallsOf(c) = <<>>
      /\ stats_options_json[c].isNone
      /\ Built(c) => spec[c].stats_options_json.isNone

C4_Witness ==
  \E c \in Comps :
    /\ pc[c] = "done"
    /\ args[c].stats_options = None
    /\ args[c].schema # None
    /\ ~args[c].exclude_splits.isNone
    /\ component[c].spec.stats_options_json.isNone

\* C5: the outputs of a constructed component have the single key
\* "statistics", whose value is the channel the call created, never the
\* examples or the schema channel passed in; the spec record holds that
\* same channel from the moment it is built.
C5_OutputsOnlyStatistics ==
  \A c \in Comps :
    /\ Built(c) =>
         /\ spec[c].statistics = statistics[c]
         /\ spec[c].statistics > NumCallerChannels
         /\ spec[c].statistics \notin {args[c].examples, args[c].schema}
    /\ pc[c] = "done" =>
         /\ DOMAIN component[c].outputs = {"statistics"}
         /\ component[c].outputs["statistics"] = statistics[c]
         /\ component[c].outputs["statistics"] \notin
              {args[c].examples, args[c].schema}

C5_Witness ==
  \E c \in Comps :
    /\ pc[c] = "done"
    /\ args[c].schema # None
    /\ DOMAIN component[c].outputs = {"statistics"}
    /\ component[c].outputs["statistics"] = statistics[c]

\* C6: the channel a call creates has the artifact type ExampleStatistics,
\* whatever the arguments are.
C6_OutputTypeExampleStatistics ==
  \A c \in Comps :
    /\ HasChannel(c) => channels[statistics[c]].type = "ExampleStatistics"
    /\ pc[c] = "done" =>
         channels[component[c].outputs["statistics"]].type = "ExampleStatistics"

C6_Witness ==
  \E c \in Comps :
    /\ pc[c] = "done"
    /\ args[c].schema = None
    /\ args[c].stats_options = None
    /\ args[c].exclude_splits.isNone
    /\ channels[component[c].outputs["statistics"]].type = "ExampleStatistics"

\* C7: the defaulting message is logged if and only if exclude_splits is
\* None: a call given a list, the empty list included, logs nothing, and no
\* call changes the channels or the arguments of the caller.
C7_LogOnlyWhenOmitted ==
  /\ \A c \in Comps :
       /\ ~args[c].exclude_splits.isNone => LogsOf(c) = {}
       /\ (Defaulted(c) /\ args[c].exclude_splits.isNone) =>
            Cardinality(DefaultingLogsOf(c)) = 1
  /\ SubSeq(channels, 1, NumCallerChannels) = CallerChannels

C7_Witness ==
  \E c \in Comps :
    /\ pc[c] = "done"
    /\ args[c].exclude_splits = Some(<<>>)
    /\ LogsOf(c) = {}

AloneSpecMatches(a, sp) ==
  /\ sp.examples = a.examples
  /\ sp.schema = a.schema
  /\ sp.stats_options_json =
       (IF a.stats_options = None THEN NoneVal
        ELSE Some(to_json(a.stats_options)))
  /\ loads(sp.exclude_splits) =
       Decoded("list", IF a.exclude_splits.isNone THEN <<>>
                       ELSE a.exclude_splits.val)

\* C9: calls interleaved in any way never share an output channel, and the
\* spec and outputs of each are those it has when it runs alone.
C9_IndependentConstructions ==
  /\ \A c, d \in Comps :
       (c # d /\ HasChannel(c) /\ HasChannel(d)) =>
         statistics[c] # statistics[d]
  /\ \A c, d \in Comps :
       (c # d /\ pc[c] = "done" /\ pc[d] = "done") =>
         component[c].outputs["statistics"] # component[d].outputs["statistics"]
  /\ \A c \in Comps :
       /\ Built(c) => AloneSpecMatches(args[c], spec[c])
       /\ pc[c] = "done" =>
            /\ component[c].spec = spec[c]
            /\ component[c].outputs = [k \in {"statistics"} |-> statistics[c]]
            /\ channels[statistics[c]] = StatisticsChannel

C9_Witness ==
  /\ \A c \in Comps : pc[c] = "done"
  /\ \A c, d \in Comps : args[c] = args[d]
  /\ \A c, d \in Comps :
       c # d => component[c].outputs["statistics"] # component[d].outputs["statistics"]

\* C10: the spec record holds the examples and schema references passed in
\* (None for an omitted schema), and the base initializer is invoked once,
\* as the last step, with all five fields of the record set.
C10_HandlesPassedThrough ==
  \A c \in Comps :
    /\ Built(c) =>
         /\ spec[c].examples = args[c].examples
         /\ spec[c].schema = args[c].schema
         /\ spec[c].stats_options_json = stats_options_json[c]
         /\ loads(spec[c].exclude_splits).kind = "list"
         /\ spec[c].statistics = statistics[c]
    /\ init_calls[c] = (IF pc[c] \in {"done", "raised_base"} THEN 1 ELSE 0)
    /\ pc[c] = "done" => component[c].spec = spec[c]

C10_Witness ==
  \E c \in Comps :
    /\ pc[c] = "done"
    /\ init_calls[c] = 1
    /\ args[c].schema = None
    /\ component[c].spec.schema = None
    /\ component[c].spec.examples = args[c].examples

====
